---- MODULE Spec2Model ----
(***************************************************************************)
(* Server selection of mlab-ns: server/mlabns/util/resolver.py.            *)
(*                                                                         *)
(* One lookup at a time is answered by the resolver that new_resolver      *)
(* returns for the query's policy.  The memcache entry of a tool, the      *)
(* SliverTool and Site entities of the datastore are read-only inputs of   *)
(* the resolver; the calls made to them are recorded in `calls` and, per   *)
(* call of _get_candidates, in `fetches`.                                  *)
(*                                                                         *)
(* Python's None is the string "None" where the value is a string, and the *)
(* empty tuple where the value is a number or a list (latitude, longitude, *)
(* distance, float('+inf') of the minimum search).                         *)
(***************************************************************************)
EXTENDS Integers, Sequences, FiniteSets, TLC

VARIABLES memcache, datastore, site_table, pc, query, resolver, candidates,
          result, fetches, calls, closest_sliver_tools, sliver_tools_sorted

vars == <<memcache, datastore, site_table, pc, query, resolver, candidates,
          result, fetches, calls, closest_sliver_tools, sliver_tools_sorted>>

world == <<memcache, datastore, site_table>>

-----------------------------------------------------------------------------
(* Values of mlabns.util.message that the resolver compares against.       *)

None == "None"

ADDRESS_FAMILY_IPv4 == "ipv4"
ADDRESS_FAMILY_IPv6 == "ipv6"
STATUS_ONLINE == "online"
STATUS_OFFLINE == "offline"

POLICY_GEO == "geo"
POLICY_GEO_OPTIONS == "geo_options"
POLICY_METRO == "metro"
POLICY_RANDOM == "random"
POLICY_COUNTRY == "country"
POLICY_ALL == "all"

MAX_FETCHED_RESULTS == 500
MAX_RESULTS == 4

-----------------------------------------------------------------------------
(* Bounds of the model.                                                    *)

\* SliverTool entities of one tool in the datastore (main specification).
MaxTools == 2
\* Candidates handed to GeoResolver (specification SpecGeo).
MaxGeoCands == 4
\* Sites of the candidates of GeoResolver (SpecGeo).
NumGeoSites == 3
\* Candidates handed to GeoResolverWithOptions (SpecGeoOpt).
MaxOptCands == 6
\* Sites of the candidates of GeoResolverWithOptions (SpecGeoOpt).
NumOptSites == 5
\* Largest latitude of a client.
MaxCoord == 2

-----------------------------------------------------------------------------
(* Small helpers on sequences.                                             *)

Range(s) == {s[i] : i \in 1..Len(s)}

Take(s, n) == IF Len(s) <= n THEN s ELSE SubSeq(s, 1, n)

SeqUpTo(S, n) == UNION {[1..k -> S] : k \in 0..n}

Abs(x) == IF x < 0 THEN 0 - x ELSE x

\* Every order in which the elements of S can be listed.
RECURSIVE Orders(_)
Orders(S) ==
    IF S = {} THEN {<<>>}
    ELSE UNION {{<<x>> \o rest : rest \in Orders(S \ {x})} : x \in S}

-----------------------------------------------------------------------------
(* The data model: SliverTool and Site entities, LookupQuery.              *)

\* Site ids are numbered; a site's location and country are those of the
\* Site entity, copied into each of its SliverTools when it is registered.
SiteLatitude(site_id) == site_id \div 2
SiteLongitude(site_id) == 0
SiteCountry(site_id) == IF site_id % 2 = 1 THEN "US" ELSE "FR"

SliverTool(tool_id, site_id, status_ipv4, status_ipv6) ==
    [tool_id |-> tool_id, site_id |-> site_id, country |-> SiteCountry(site_id),
     latitude |-> SiteLatitude(site_id), longitude |-> SiteLongitude(site_id),
     status_ipv4 |-> status_ipv4, status_ipv6 |-> status_ipv6]

Statuses == {STATUS_ONLINE, STATUS_OFFLINE}

OtherTool == SliverTool("npad", 1, STATUS_ONLINE, STATUS_ONLINE)

LookupQuery(policy, address_family, user_defined_af) ==
    [tool_id |-> "ndt", policy |-> policy, address_family |-> address_family,
     user_defined_af |-> user_defined_af, latitude |-> <<>>, longitude |-> <<>>,
     metro |-> None, user_defined_country |-> None, distance |-> <<>>]

NoQuery == LookupQuery(None, None, None)

NoEntry == [found |-> FALSE, value |-> <<>>]
Entry(sliver_tools) == [found |-> TRUE, value |-> sliver_tools]

NoResult == [status |-> "running", value |-> <<>>]
NotFound == [status |-> "None", value |-> <<>>]
Returned(sliver_tools) == [status |-> "list", value |-> sliver_tools]
IndexError == [status |-> "IndexError", value |-> <<>>]

-----------------------------------------------------------------------------
(* mlabns.util.distance.distance and math.ceil.  Distances are kept in     *)
(* tenths of a kilometre, one degree of the grid being 1.5 km, so that     *)
(* rounding up to whole kilometres changes the value.                      *)

distance(lat1, lon1, lat2, lon2) == 15 * (Abs(lat1 - lat2) + Abs(lon1 - lon2))

math_ceil(d) == (d + 9) \div 10

\* float('+inf') is the empty tuple, a distance d is <<d>>; the ceiling
\* of float('+inf') is float('+inf').
Inf == <<>>
ceil_distance(min_distance) ==
    IF min_distance = Inf THEN Inf ELSE <<math_ceil(min_distance[1])>>
less_than(d, min_distance) == min_distance = Inf \/ d < min_distance[1]
equal_to(d, min_distance) == min_distance /= Inf /\ d = min_distance[1]

-----------------------------------------------------------------------------
(* ResolverBase._get_candidates and _get_candidates_from_sites.            *)

\* The status test of the two memcache loops.
is_online(sliver_tool, address_family) ==
    \/ /\ address_family = ADDRESS_FAMILY_IPv4
       /\ sliver_tool.status_ipv4 = STATUS_ONLINE
    \/ /\ address_family = ADDRESS_FAMILY_IPv6
       /\ sliver_tool.status_ipv6 = STATUS_ONLINE

RECURSIVE filter_memcache(_, _)
filter_memcache(sliver_tools, address_family) ==
    IF sliver_tools = <<>> THEN <<>>
    ELSE LET sliver_tool == Head(sliver_tools)
         IN  (IF is_online(sliver_tool, address_family)
              THEN <<sliver_tool>> ELSE <<>>)
             \o filter_memcache(Tail(sliver_tools), address_family)

RECURSIVE filter_memcache_sites(_, _, _)
filter_memcache_sites(sliver_tools, address_family, site_id_list) ==
    IF sliver_tools = <<>> THEN <<>>
    ELSE LET sliver_tool == Head(sliver_tools)
         IN  (IF /\ sliver_tool.site_id \in Range(site_id_list)
                 /\ is_online(sliver_tool, address_family)
              THEN <<sliver_tool>> ELSE <<>>)
             \o filter_memcache_sites(Tail(sliver_tools), address_family,
                                      site_id_list)

\* What one call of _get_candidates hands back, with the calls it made.
Fetched(address_family, found, cands, made) ==
    [address_family |-> address_family, found |-> found, candidates |-> cands,
     calls |-> made, site_id_list |-> <<>>]

\* A memcache entry without Online tool treated as a miss.
_get_candidates_empty_is_miss(q, address_family) ==
    LET sliver_tools == memcache[q.tool_id]
        status_field == "status_" \o address_family
        gql == SelectSeq(datastore,
                   LAMBDA e : /\ e.tool_id = q.tool_id
                              /\ e[status_field] = STATUS_ONLINE)
    IN  IF /\ sliver_tools.found
           /\ filter_memcache(sliver_tools.value, address_family) /= <<>>
        THEN Fetched(address_family, TRUE,
                     filter_memcache(sliver_tools.value, address_family),
                     <<"memcache.get">>)
        ELSE Fetched(address_family, sliver_tools.found,
                     Take(gql, MAX_FETCHED_RESULTS),
                     <<"memcache.get", "SliverTool.count", "SliverTool.fetch">>)

_get_candidates(q, address_family) ==
    LET sliver_tools == memcache[q.tool_id]
    IN  IF sliver_tools.found
        THEN Fetched(address_family, TRUE,
                     filter_memcache(sliver_tools.value, address_family),
                     <<"memcache.get">>)
        ELSE LET status_field == "status_" \o address_family
                 gql == SelectSeq(datastore,
                            LAMBDA e : /\ e.tool_id = q.tool_id
                                       /\ e[status_field] = STATUS_ONLINE)
             IN  Fetched(address_family, FALSE, Take(gql, MAX_FETCHED_RESULTS),
                         <<"memcache.get", "SliverTool.count", "SliverTool.fetch">>)

_get_candidates_from_sites(q, address_family, site_id_list) ==
    LET sliver_tools == memcache[q.tool_id]
    IN  IF sliver_tools.found
        THEN Fetched(address_family, TRUE,
                     filter_memcache_sites(sliver_tools.value, address_family,
                                           site_id_list),
                     <<"memcache.get">>)
        ELSE LET status_field == "status_" \o address_family
                 gql == SelectSeq(datastore,
                            LAMBDA e : /\ e.tool_id = q.tool_id
                                       /\ e[status_field] = STATUS_ONLINE
                                       /\ e.site_id \in Range(site_id_list))
             IN  Fetched(address_family, FALSE, Take(gql, MAX_FETCHED_RESULTS),
                         <<"memcache.get", "SliverTool.count", "SliverTool.fetch">>)

-----------------------------------------------------------------------------
(* MetroResolver._get_candidates.                                          *)

\* Metro answering for the requested family only.
MetroResolver_requested_family_only(q, address_family) ==
    LET sites == Take(SelectSeq(site_table, LAMBDA s : s.metro = q.metro),
                      MAX_FETCHED_RESULTS)
    IN  IF Len(sites) = 0 \/ address_family /= q.address_family
        THEN Fetched(address_family, FALSE, <<>>, <<"Site.fetch">>)
        ELSE LET site_id_list == [i \in 1..Len(sites) |-> sites[i].site_id]
                 f == _get_candidates_from_sites(q, address_family, site_id_list)
             IN  [f EXCEPT !.calls = <<"Site.fetch">> \o @,
                           !.site_id_list = site_id_list]

\* Metro returning at once when the query has no metro.
MetroResolver_requires_metro(q, address_family) ==
    LET sites == Take(SelectSeq(site_table, LAMBDA s : s.metro = q.metro),
                      MAX_FETCHED_RESULTS)
    IN  IF q.metro = None
        THEN Fetched(address_family, FALSE, <<>>, <<>>)
        ELSE IF Len(sites) = 0
        THEN Fetched(address_family, FALSE, <<>>, <<"Site.fetch">>)
        ELSE LET site_id_list == [i \in 1..Len(sites) |-> sites[i].site_id]
                 f == _get_candidates_from_sites(q, address_family, site_id_list)
             IN  [f EXCEPT !.calls = <<"Site.fetch">> \o @,
                           !.site_id_list = site_id_list]

MetroResolver_get_candidates(q, address_family) ==
    LET sites == Take(SelectSeq(site_table, LAMBDA s : s.metro = q.metro),
                      MAX_FETCHED_RESULTS)
    IN  IF Len(sites) = 0
        THEN Fetched(address_family, FALSE, <<>>, <<"Site.fetch">>)
        ELSE LET site_id_list == [i \in 1..Len(sites) |-> sites[i].site_id]
                 f == _get_candidates_from_sites(q, address_family, site_id_list)
             IN  [f EXCEPT !.calls = <<"Site.fetch">> \o @,
                           !.site_id_list = site_id_list]

-----------------------------------------------------------------------------
(* new_resolver and the dispatch of self._get_candidates.                  *)

new_resolver(policy) ==
    IF policy = POLICY_GEO THEN "GeoResolver"
    ELSE IF policy = POLICY_METRO THEN "MetroResolver"
    ELSE IF policy = POLICY_RANDOM THEN "RandomResolver"
    ELSE IF policy = POLICY_COUNTRY THEN "CountryResolver"
    ELSE IF policy = POLICY_GEO_OPTIONS THEN "GeoResolverWithOptions"
    ELSE IF policy = POLICY_ALL THEN "AllResolver"
    ELSE "RandomResolver"

self_get_candidates(self, q, address_family) ==
    IF self = "MetroResolver"
    THEN MetroResolver_get_candidates(q, address_family)
    ELSE _get_candidates(q, address_family)

-----------------------------------------------------------------------------
(* ResolverBase.get_candidates, in its two steps.                          *)

\* Line 29: the first fetch is made when the query has an address family.
has_address_family(q) == q.address_family /= None

\* The second fetch made whatever family the client asked for.
try_other_family_unforced(q, cands) ==
    Len(cands) = 0

\* Lines 33-34: the condition of the second fetch.
try_other_family(q, cands) ==
    Len(cands) = 0 /\ q.address_family /= q.user_defined_af

\* `else` in place of `elif` at line 38.
other_family_else(q) ==
    IF q.address_family = ADDRESS_FAMILY_IPv4 THEN ADDRESS_FAMILY_IPv6
    ELSE ADDRESS_FAMILY_IPv4

\* Lines 35-40: the family of the second fetch, None when neither branch runs.
other_family(q) ==
    IF q.address_family = ADDRESS_FAMILY_IPv4 THEN ADDRESS_FAMILY_IPv6
    ELSE IF q.address_family = ADDRESS_FAMILY_IPv6 THEN ADDRESS_FAMILY_IPv4
    ELSE None

-----------------------------------------------------------------------------
(* random.choice: every element of a non-empty list, IndexError otherwise. *)

random_choice(seq) ==
    IF Len(seq) = 0 THEN {IndexError} ELSE {Returned(<<seq[i]>>) : i \in 1..Len(seq)}

-----------------------------------------------------------------------------
(* GeoResolver.answer_query, lines 156-188.                                *)

\* Lines 165-174: the distance of the tool's site, computed on the first
\* tool of the site and looked up in `distances` afterwards.
site_distance(q, distances, sliver_tool) ==
    IF sliver_tool.site_id \in DOMAIN distances
    THEN distances[sliver_tool.site_id]
    ELSE distance(q.latitude[1], q.longitude[1],
                  sliver_tool.latitude, sliver_tool.longitude)

\* A new minimum that keeps the tools of the former minimum.
update_closest_keeps_farther(acc, sliver_tool, current_distance) ==
    IF less_than(current_distance, acc.min_distance)
    THEN [acc EXCEPT !.min_distance = <<current_distance>>,
                     !.closest_sliver_tools = Append(@, sliver_tool)]
    ELSE IF equal_to(current_distance, acc.min_distance)
    THEN [acc EXCEPT !.closest_sliver_tools = Append(@, sliver_tool)]
    ELSE acc

\* The minimum search without its elif branch.
update_closest_drops_ties(acc, sliver_tool, current_distance) ==
    IF less_than(current_distance, acc.min_distance)
    THEN [acc EXCEPT !.min_distance = <<current_distance>>,
                     !.closest_sliver_tools = <<sliver_tool>>]
    ELSE acc

\* Lines 177-181: the minimum and the tools at the minimum.
update_closest(acc, sliver_tool, current_distance) ==
    IF less_than(current_distance, acc.min_distance)
    THEN [acc EXCEPT !.min_distance = <<current_distance>>,
                     !.closest_sliver_tools = <<sliver_tool>>]
    ELSE IF equal_to(current_distance, acc.min_distance)
    THEN [acc EXCEPT !.closest_sliver_tools = Append(@, sliver_tool)]
    ELSE acc

RECURSIVE closest_loop(_, _, _)
closest_loop(q, cands, acc) ==
    IF cands = <<>> THEN acc
    ELSE LET sliver_tool == Head(cands)
             current_distance == site_distance(q, acc.distances, sliver_tool)
             memo == (sliver_tool.site_id :> current_distance) @@ acc.distances
         IN  closest_loop(q, Tail(cands),
                 update_closest([acc EXCEPT !.distances = memo],
                                sliver_tool, current_distance))

find_closest(q, cands) ==
    closest_loop(q, cands,
        [min_distance |-> Inf, closest_sliver_tools |-> <<>>, distances |-> <<>>])

-----------------------------------------------------------------------------
(* GeoResolverWithOptions.answer_query, lines 218-252.                     *)

\* Lines 224-228: the candidates of each site, in the order of the list.
sliver_tool_bins(cands) ==
    [site_id \in {cands[i].site_id : i \in 1..Len(cands)} |->
        SelectSeq(cands, LAMBDA t : t.site_id = site_id)]

\* The outcomes of the random.choice of line 232 over all bins.
RECURSIVE bin_choices(_, _)
bin_choices(bins, site_ids) ==
    IF site_ids = {} THEN {<<>>}
    ELSE LET site_id == CHOOSE x \in site_ids : TRUE
         IN  {(site_id :> bins[site_id][i]) @@ rest :
                 i \in 1..Len(bins[site_id]),
                 rest \in bin_choices(bins, site_ids \ {site_id})}

SliverToolDistance(sliver_tool, d) == [sliver_tool |-> sliver_tool, distance |-> d]

\* Lines 230-246: one SliverToolDistance per bin, in the dict's order, the
\* distance of a site being looked up in `distances` as in GeoResolver.
RECURSIVE bin_loop(_, _, _, _, _)
bin_loop(q, order, chosen, distances, sliver_tools) ==
    IF order = <<>> THEN sliver_tools
    ELSE LET sliver_tool == chosen[Head(order)]
             current_distance == site_distance(q, distances, sliver_tool)
         IN  bin_loop(q, Tail(order), chosen,
                      (sliver_tool.site_id :> current_distance) @@ distances,
                      Append(sliver_tools,
                             SliverToolDistance(sliver_tool, current_distance)))

bin_distances(q, order, chosen) == bin_loop(q, order, chosen, <<>>, <<>>)

\* sorted(..., key=attrgetter('distance')): stable, ascending.
RECURSIVE insert_sorted(_, _)
insert_sorted(sorted_, std) ==
    IF sorted_ = <<>> THEN <<std>>
    ELSE IF std.distance < Head(sorted_).distance THEN <<std>> \o sorted_
    ELSE <<Head(sorted_)>> \o insert_sorted(Tail(sorted_), std)

\* The list left in the order of the dict.
sorted_as_given(sliver_tools) == sliver_tools

RECURSIVE sorted(_)
sorted(sliver_tools) ==
    IF sliver_tools = <<>> THEN <<>>
    ELSE insert_sorted(sorted(SubSeq(sliver_tools, 1, Len(sliver_tools) - 1)),
                       sliver_tools[Len(sliver_tools)])

\* Lines 249-252.
final_results(sliver_tools_sorted_) ==
    Take([i \in 1..Len(sliver_tools_sorted_) |-> sliver_tools_sorted_[i].sliver_tool],
         MAX_RESULTS)

-----------------------------------------------------------------------------
(* CountryResolver.answer_query, lines 294-309.                            *)

\* `not query.user_defined_country` in place of `is None`.
country_missing_or_empty(q) == q.user_defined_country \in {None, ""}

country_missing(q) == q.user_defined_country = None

country_candidates(q, cands) ==
    SelectSeq(cands, LAMBDA candidate : candidate.country = q.user_defined_country)

-----------------------------------------------------------------------------
(* The steps of answer_query.                                              *)

\* answer_query without its test of an empty list.
no_results_unchecked(cands) == FALSE

\* Lines 120, 129, 148, 210, 298: no candidate at all.
no_results(cands) == Len(cands) = 0

\* Lines 152 and 214.
no_coordinates(q) == q.latitude = <<>> \/ q.longitude = <<>>

Fetch(address_family) ==
    LET f == self_get_candidates(resolver, query, address_family)
    IN  /\ candidates' = f.candidates
        /\ fetches' = Append(fetches, f)
        /\ calls' = calls \o f.calls

Start(queries) ==
    /\ pc = "idle"
    /\ \E q \in queries :
          /\ query' = q
          /\ resolver' = new_resolver(q.policy)
    /\ pc' = "answer"
    /\ UNCHANGED <<world, candidates, result, fetches, calls,
                   closest_sliver_tools, sliver_tools_sorted>>

\* CountryResolver.answer_query, lines 294-295.
CountryWithoutCountry ==
    /\ pc = "answer"
    /\ resolver = "CountryResolver"
    /\ country_missing(query)
    /\ result' = NotFound
    /\ pc' = "done"
    /\ UNCHANGED <<world, query, resolver, candidates, fetches, calls,
                   closest_sliver_tools, sliver_tools_sorted>>

\* get_candidates, lines 28-30.
GetCandidates ==
    /\ pc = "answer"
    /\ ~(resolver = "CountryResolver" /\ country_missing(query))
    /\ IF has_address_family(query)
       THEN Fetch(query.address_family)
       ELSE candidates' = <<>> /\ UNCHANGED <<fetches, calls>>
    /\ pc' = "retry"
    /\ UNCHANGED <<world, query, resolver, result,
                   closest_sliver_tools, sliver_tools_sorted>>

\* get_candidates, lines 33-41.
GetCandidatesOtherFamily ==
    /\ pc = "retry"
    /\ IF try_other_family(query, candidates) /\ other_family(query) /= None
       THEN Fetch(other_family(query))
       ELSE UNCHANGED <<candidates, fetches, calls>>
    /\ pc' = "select"
    /\ UNCHANGED <<world, query, resolver, result,
                   closest_sliver_tools, sliver_tools_sorted>>

\* ResolverBase.answer_query, lines 120-124 (Random and Metro inherit it).
AnswerRandom ==
    /\ pc = "select"
    /\ resolver \in {"RandomResolver", "MetroResolver"}
    /\ IF no_results(candidates)
       THEN result' = NotFound
       ELSE result' \in random_choice(candidates)
    /\ pc' = "done"
    /\ UNCHANGED <<world, query, resolver, candidates, fetches, calls,
                   closest_sliver_tools, sliver_tools_sorted>>

\* AllResolver.answer_query, lines 129-132.
AnswerAll ==
    /\ pc = "select"
    /\ resolver = "AllResolver"
    /\ IF no_results(candidates)
       THEN result' = NotFound
       ELSE result' = Returned(candidates)
    /\ pc' = "done"
    /\ UNCHANGED <<world, query, resolver, candidates, fetches, calls,
                   closest_sliver_tools, sliver_tools_sorted>>

\* GeoResolver.answer_query, lines 148-188.
AnswerGeo ==
    /\ pc = "select"
    /\ resolver = "GeoResolver"
    /\ IF no_results(candidates)
       THEN /\ result' = NotFound
            /\ UNCHANGED <<query, closest_sliver_tools>>
       ELSE IF no_coordinates(query)
       THEN /\ result' \in random_choice(candidates)
            /\ UNCHANGED <<query, closest_sliver_tools>>
       ELSE LET found == find_closest(query, candidates)
            IN  /\ query' = [query EXCEPT
                                !.distance = ceil_distance(found.min_distance)]
                /\ closest_sliver_tools' = found.closest_sliver_tools
                /\ result' \in random_choice(found.closest_sliver_tools)
    /\ pc' = "done"
    /\ UNCHANGED <<world, resolver, candidates, fetches, calls,
                   sliver_tools_sorted>>

\* GeoResolverWithOptions.answer_query, lines 210-252.  The bins are visited
\* in the order of a dict, which is any order.
AnswerGeoOptions ==
    /\ pc = "select"
    /\ resolver = "GeoResolverWithOptions"
    /\ IF no_results(candidates)
       THEN /\ result' = NotFound
            /\ UNCHANGED sliver_tools_sorted
       ELSE IF no_coordinates(query)
       THEN /\ result' \in random_choice(candidates)
            /\ UNCHANGED sliver_tools_sorted
       ELSE LET bins == sliver_tool_bins(candidates)
            IN  \E order \in Orders(DOMAIN bins) :
                \E chosen \in bin_choices(bins, DOMAIN bins) :
                   /\ sliver_tools_sorted' =
                          sorted(bin_distances(query, order, chosen))
                   /\ result' = Returned(final_results(sliver_tools_sorted'))
    /\ pc' = "done"
    /\ UNCHANGED <<world, query, resolver, candidates, fetches, calls,
                   closest_sliver_tools>>

\* CountryResolver.answer_query, lines 298-309.
AnswerCountry ==
    /\ pc = "select"
    /\ resolver = "CountryResolver"
    /\ IF no_results(candidates)
       THEN result' = NotFound
       ELSE IF Len(country_candidates(query, candidates)) = 0
       THEN result' = NotFound
       ELSE result' \in random_choice(country_candidates(query, candidates))
    /\ pc' = "done"
    /\ UNCHANGED <<world, query, resolver, candidates, fetches, calls,
                   closest_sliver_tools, sliver_tools_sorted>>

\* The query is discarded and the next one is taken.
Return ==
    /\ pc = "done"
    /\ pc' = "idle"
    /\ query' = NoQuery
    /\ resolver' = None
    /\ candidates' = <<>>
    /\ result' = NoResult
    /\ fetches' = <<>>
    /\ calls' = <<>>
    /\ closest_sliver_tools' = <<>>
    /\ sliver_tools_sorted' = <<>>
    /\ UNCHANGED world

-----------------------------------------------------------------------------
(* The queries and the worlds of the specifications.                       *)

AddressFamilies == {None, ADDRESS_FAMILY_IPv4, ADDRESS_FAMILY_IPv6}

PlainQueries(policies) ==
    {LookupQuery(p, af, uaf) : p \in policies, af \in AddressFamilies,
                               uaf \in AddressFamilies}

LocatedQueries(policies, families, latitudes) ==
    {[LookupQuery(p, af, uaf) EXCEPT !.latitude = <<lat>>, !.longitude = <<0>>] :
        p \in policies, af \in families, uaf \in families, lat \in latitudes}

MetroQueries ==
    {[q EXCEPT !.metro = m] : q \in PlainQueries({POLICY_METRO}),
                              m \in {None, "lga", "nuq"}}

CountryQueries ==
    {[q EXCEPT !.user_defined_country = c] : q \in PlainQueries({POLICY_COUNTRY}),
                                             c \in {None, "", "US", "FR"}}

Queries ==
    PlainQueries({POLICY_RANDOM, POLICY_ALL, POLICY_GEO, POLICY_GEO_OPTIONS, "unknown"})
    \cup LocatedQueries({POLICY_GEO, POLICY_GEO_OPTIONS}, AddressFamilies, {0})
    \cup MetroQueries \cup CountryQueries

\* The SliverTools of tool "ndt" on the two sites of the main specification.
Tools ==
    {SliverTool("ndt", site_id, s4, s6) :
        site_id \in 1..2, s4 \in Statuses, s6 \in Statuses}

\* Site 1 is in metro "lga" or has no metro, site 2 is in "ord".
SiteTables ==
    {<<[site_id |-> 1, metro |-> m], [site_id |-> 2, metro |-> "ord"]>> :
        m \in {"lga", None}}

\* The memcache entry of a tool is missing, or a copy of the tool's
\* SliverTools that may be out of date.
Snapshots(sliver_tools) ==
    {NoEntry, Entry(<<>>), Entry(sliver_tools)}
    \cup (IF sliver_tools = <<>> THEN {} ELSE {Entry(Tail(sliver_tools))})

Idle ==
    /\ pc = "idle"
    /\ query = NoQuery
    /\ resolver = None
    /\ candidates = <<>>
    /\ result = NoResult
    /\ fetches = <<>>
    /\ calls = <<>>
    /\ closest_sliver_tools = <<>>
    /\ sliver_tools_sorted = <<>>

Init ==
    /\ \E sliver_tools \in SeqUpTo(Tools, MaxTools) :
          /\ datastore = <<OtherTool>> \o sliver_tools
          /\ \E entry \in Snapshots(sliver_tools) :
                memcache = [tool_id \in {"ndt", "npad"} |->
                               IF tool_id = "ndt" THEN entry ELSE NoEntry]
    /\ site_table \in SiteTables
    /\ Idle

Next ==
    \/ Start(Queries)
    \/ CountryWithoutCountry
    \/ GetCandidates
    \/ GetCandidatesOtherFamily
    \/ AnswerRandom
    \/ AnswerAll
    \/ AnswerGeo
    \/ AnswerGeoOptions
    \/ AnswerCountry
    \/ Return

Spec == Init /\ [][Next]_vars

-----------------------------------------------------------------------------
(* GeoResolver on its own: the memcache holds any list of Online tools of  *)
(* the sites 1..NumGeoSites, the client is at any latitude.                *)

GeoTools ==
    {SliverTool("ndt", site_id, STATUS_ONLINE, s6) :
        site_id \in 1..NumGeoSites, s6 \in Statuses}

GeoQueries ==
    LocatedQueries({POLICY_GEO}, {ADDRESS_FAMILY_IPv4}, 0..MaxCoord)

InitGeo ==
    /\ datastore = <<OtherTool>>
    /\ \E sliver_tools \in SeqUpTo(GeoTools, MaxGeoCands) :
          memcache = [tool_id \in {"ndt", "npad"} |->
                         IF tool_id = "ndt" THEN Entry(sliver_tools) ELSE NoEntry]
    /\ site_table = <<>>
    /\ Idle

NextGeo ==
    \/ Start(GeoQueries)
    \/ GetCandidates
    \/ GetCandidatesOtherFamily
    \/ AnswerGeo
    \/ Return

SpecGeo == InitGeo /\ [][NextGeo]_vars

-----------------------------------------------------------------------------
(* GeoResolverWithOptions on its own: the memcache holds Online tools of   *)
(* the sites 1..NumOptSites.  The tools are binned by site and the bins    *)
(* read in the order of a dict, so the lists are taken in one order, that  *)
(* of their sites.                                                         *)

\* Tool k is on site k; tool 0 is a second tool of site 1.
OptTool(k) ==
    IF k = 0 THEN SliverTool("ndt", 1, STATUS_ONLINE, STATUS_OFFLINE)
    ELSE SliverTool("ndt", k, STATUS_ONLINE, STATUS_ONLINE)

RECURSIVE OptLists(_, _)
OptLists(n, lowest) ==
    IF n = 0 THEN {<<>>}
    ELSE {<<>>} \cup UNION {{<<OptTool(k)>> \o rest : rest \in OptLists(n - 1, k)} :
                                k \in lowest..NumOptSites}

OptQueries ==
    LocatedQueries({POLICY_GEO_OPTIONS}, {ADDRESS_FAMILY_IPv4}, 0..MaxCoord)

InitGeoOpt ==
    /\ datastore = <<OtherTool>>
    /\ \E sliver_tools \in OptLists(MaxOptCands, 0) :
          memcache = [tool_id \in {"ndt", "npad"} |->
                         IF tool_id = "ndt" THEN Entry(sliver_tools) ELSE NoEntry]
    /\ site_table = <<>>
    /\ Idle

NextGeoOpt ==
    \/ Start(OptQueries)
    \/ GetCandidates
    \/ GetCandidatesOtherFamily
    \/ AnswerGeoOptions
    \/ Return

SpecGeoOpt == InitGeoOpt /\ [][NextGeoOpt]_vars

-----------------------------------------------------------------------------
(* What the claims are stated with.                                        *)

Done == pc = "done"

\* get_candidates has been called and has returned.
Acquired ==
    \/ pc = "select"
    \/ pc = "done" /\ ~(resolver = "CountryResolver" /\ query.user_defined_country = None)

HasFamily == query.address_family \in {ADDRESS_FAMILY_IPv4, ADDRESS_FAMILY_IPv6}

\* The client asked for the family of the query.
Forced == query.address_family = query.user_defined_af

Swapped(address_family) ==
    IF address_family = ADDRESS_FAMILY_IPv4 THEN ADDRESS_FAMILY_IPv6
    ELSE ADDRESS_FAMILY_IPv4

StatusFor(sliver_tool, address_family) ==
    IF address_family = ADDRESS_FAMILY_IPv4 THEN sliver_tool.status_ipv4
    ELSE sliver_tool.status_ipv6

\* The calls of a fetch to the SliverTool store.
StoreCalls(f) ==
    SelectSeq(f.calls, LAMBDA c : c \in {"SliverTool.count", "SliverTool.fetch"})

\* A fetch that went as far as the sliver-tool lookup.
LooksUpTools(f) == "memcache.get" \in Range(f.calls)

AllFetchesEmpty == \A i \in 1..Len(fetches) : fetches[i].candidates = <<>>

Located == query.latitude /= <<>> /\ query.longitude /= <<>>

\* The distance from the client to the tool's own coordinates.
OwnDistance(sliver_tool) ==
    distance(query.latitude[1], query.longitude[1],
             sliver_tool.latitude, sliver_tool.longitude)

MinOwnDistance ==
    LET ds == {OwnDistance(candidates[i]) : i \in 1..Len(candidates)}
    IN  CHOOSE d \in ds : \A e \in ds : d <= e

\* The least number of whole kilometres that covers d tenths of a kilometre.
WholeKm(d) == CHOOSE k \in 0..d : 10 * k >= d /\ \A j \in 0..d : 10 * j >= d => k <= j

CandidateSites == {candidates[i].site_id : i \in 1..Len(candidates)}

MetroSites == {site_table[i].site_id : i \in {j \in 1..Len(site_table) :
                                                 site_table[j].metro = query.metro}}

\* The tools of the metro's sites that the memcache entry, or without entry
\* the datastore, shows Online for the family.
MetroOnline(address_family) ==
    LET known == IF memcache[query.tool_id].found
                 THEN memcache[query.tool_id].value ELSE datastore
    IN  {t \in Range(known) : /\ t.tool_id = query.tool_id
                              /\ t.site_id \in MetroSites
                              /\ StatusFor(t, address_family) = STATUS_ONLINE}

-----------------------------------------------------------------------------
(* The claims.                                                             *)

\* C1: for a query whose address_family is IPv4 or IPv6, get_candidates
\* fetches for the requested family first; it fetches for the other family
\* if and only if that first fetch was empty and the family was not forced
\* by the client, at most once, and then returns the second fetch; a forced
\* family with an empty first fetch yields the empty list.
C1_FamilyFallback ==
    (Acquired /\ HasFamily) =>
        /\ Len(fetches) \in {1, 2}
        /\ fetches[1].address_family = query.address_family
        /\ (Len(fetches) = 2) <=> (fetches[1].candidates = <<>> /\ ~Forced)
        /\ Len(fetches) = 1 => candidates = fetches[1].candidates
        /\ Len(fetches) = 2 =>
              /\ fetches[2].address_family = Swapped(query.address_family)
              /\ candidates = fetches[2].candidates
        /\ (Forced /\ fetches[1].candidates = <<>>) => candidates = <<>>

C1_Witness ==
    /\ Acquired /\ HasFamily
    /\ Len(fetches) = 2
    /\ candidates /= <<>>

\* C2, as stated: MetroResolver looks up sliver tools for the requested
\* family only and answers NotFound when that lookup is empty.
C2_MetroNoFallback ==
    (Done /\ resolver = "MetroResolver") =>
        /\ \A i \in 1..Len(fetches) :
              fetches[i].address_family = query.address_family
        /\ (fetches /= <<>> /\ fetches[1].candidates = <<>>) => result = NotFound

\* C2, amended: MetroResolver inherits the fallback of get_candidates.  When
\* no tool of the metro's sites is Online for the requested family and the
\* family was not forced, it repeats the Site and sliver-tool lookup for the
\* other family and answers with one of those tools; it answers NotFound
\* only when the family was forced or the second lookup is empty too.
C2_MetroFallback ==
    (Done /\ resolver = "MetroResolver" /\ HasFamily) =>
        /\ (Len(fetches) = 2) <=> (fetches[1].candidates = <<>> /\ ~Forced)
        /\ Len(fetches) = 2 =>
              /\ fetches[2].address_family = Swapped(query.address_family)
              /\ (result = NotFound) <=> (fetches[2].candidates = <<>>)
              /\ (result = NotFound) <=>
                     (MetroOnline(Swapped(query.address_family)) = {})
        /\ (Len(fetches) = 1 /\ fetches[1].candidates = <<>>) => result = NotFound
        /\ result /= NotFound =>
              /\ result.status = "list"
              /\ Len(result.value) = 1
              /\ result.value[1] \in Range(fetches[Len(fetches)].candidates)
              /\ result.value[1].site_id \in MetroSites
              /\ StatusFor(result.value[1], fetches[Len(fetches)].address_family)
                     = STATUS_ONLINE

C2_Witness ==
    /\ Done /\ resolver = "MetroResolver" /\ HasFamily
    /\ Len(fetches) = 2
    /\ result.status = "list"
    /\ StatusFor(result.value[1], query.address_family) /= STATUS_ONLINE
    /\ ~Forced

\* C3, as stated: CountryResolver answers NotFound without any cache or
\* store call when user_defined_country is None or the empty string.
C3_NoCountryNoCall ==
    (Done /\ resolver = "CountryResolver"
          /\ query.user_defined_country \in {None, ""}) =>
        result = NotFound /\ calls = <<>>

\* C3, amended: CountryResolver answers NotFound without any cache or store
\* call when user_defined_country is None.  The empty string is a country
\* like another: the candidates are acquired, with a memcache lookup whenever
\* the query has an address family, and only a tool whose country is the
\* empty string is returned.
C3_CountryAbsent ==
    (Done /\ resolver = "CountryResolver") =>
        /\ query.user_defined_country = None =>
              result = NotFound /\ calls = <<>> /\ fetches = <<>>
        /\ (query.user_defined_country = "" /\ HasFamily) =>
              /\ fetches /= <<>>
              /\ calls /= <<>> /\ calls[1] = "memcache.get"
        /\ (query.user_defined_country = "" /\ result /= NotFound) =>
              /\ result.status = "list"
              /\ \A i \in 1..Len(result.value) : result.value[i].country = ""

C3_Witness ==
    /\ Done /\ resolver = "CountryResolver"
    /\ query.user_defined_country = None
    /\ query.address_family = ADDRESS_FAMILY_IPv4
    /\ memcache["ndt"].found
    /\ \E i \in 1..Len(memcache["ndt"].value) :
          memcache["ndt"].value[i].status_ipv4 = STATUS_ONLINE
    /\ calls = <<>>

\* C4, as stated: a Metro query without metro is answered with no Site
\* lookup and no sliver-tool lookup.
C4_NoMetroNoCall ==
    (Done /\ resolver = "MetroResolver" /\ query.metro = None) => calls = <<>>

\* C4, amended: a Metro query without metro is not answered early.  Each
\* fetch of MetroResolver starts with the lookup of the Sites whose metro
\* equals the missing value; when no Site matches there is no sliver-tool
\* lookup and the answer is NotFound, and a tool that is returned is on a
\* Site without metro.
C4_MetroMissing ==
    (Done /\ resolver = "MetroResolver" /\ query.metro = None) =>
        /\ HasFamily => (calls /= <<>> /\ calls[1] = "Site.fetch")
        /\ \A i \in 1..Len(fetches) : fetches[i].calls[1] = "Site.fetch"
        /\ MetroSites = {} =>
              /\ \A i \in 1..Len(calls) : calls[i] = "Site.fetch"
              /\ result = NotFound
        /\ result /= NotFound =>
              /\ result.status = "list"
              /\ result.value[1].site_id \in MetroSites

C4_Witness ==
    /\ Done /\ resolver = "MetroResolver" /\ query.metro = None
    /\ MetroSites = {}
    /\ calls = <<"Site.fetch", "Site.fetch">>
    /\ memcache["ndt"].found /\ memcache["ndt"].value /= <<>>

\* C5: GeoResolver, for a non-empty candidate list (tools may share a site)
\* and a query with coordinates: query.distance is the least distance from
\* the client to a candidate's own coordinates, rounded up to whole
\* kilometres, and the returned candidate is at that least distance.
C5_GeoMinimum ==
    (Done /\ resolver = "GeoResolver" /\ candidates /= <<>> /\ Located) =>
        /\ query.distance = <<WholeKm(MinOwnDistance)>>
        /\ result.status = "list"
        /\ Len(result.value) = 1
        /\ result.value[1] \in Range(candidates)
        /\ OwnDistance(result.value[1]) = MinOwnDistance

C5_Witness ==
    /\ Done /\ resolver = "GeoResolver" /\ Located
    /\ \E i, j \in 1..Len(candidates) :
          /\ i < j
          /\ candidates[i].site_id = candidates[j].site_id
          /\ OwnDistance(candidates[i]) = MinOwnDistance
    /\ \E i \in 1..Len(candidates) : OwnDistance(candidates[i]) > MinOwnDistance
    /\ MinOwnDistance % 10 /= 0
    /\ result.status = "list"

\* C6: GeoResolverWithOptions, for a non-empty candidate list and a query
\* with coordinates, returns min(4, number of sites) candidates, at most one
\* per site, closest first, and leaves out no site that is closer than one
\* it returns.
C6_TopSites ==
    (Done /\ resolver = "GeoResolverWithOptions" /\ candidates /= <<>> /\ Located) =>
        /\ result.status = "list"
        /\ Len(result.value) =
              IF Cardinality(CandidateSites) < 4 THEN Cardinality(CandidateSites) ELSE 4
        /\ \A i \in 1..Len(result.value) : result.value[i] \in Range(candidates)
        /\ \A i, j \in 1..Len(result.value) :
              i < j => /\ result.value[i].site_id /= result.value[j].site_id
                       /\ OwnDistance(result.value[i]) <= OwnDistance(result.value[j])
        /\ \A t \in Range(candidates) :
              t.site_id \notin {result.value[i].site_id : i \in 1..Len(result.value)}
              => \A i \in 1..Len(result.value) :
                    OwnDistance(t) >= OwnDistance(result.value[i])

C6_Witness ==
    /\ Done /\ resolver = "GeoResolverWithOptions" /\ Located
    /\ Cardinality(CandidateSites) > 4
    /\ Len(candidates) > Cardinality(CandidateSites)
    /\ result.status = "list"
    /\ Len(result.value) = 4
    /\ OwnDistance(result.value[1]) < OwnDistance(result.value[4])
    /\ candidates[1].site_id \notin {result.value[i].site_id : i \in 1..4}

\* C7, as stated: in every fetch that looks up sliver tools, a memcache
\* entry, even an empty one, keeps the store from being queried and the
\* result is the entry's tools that are Online for the family (and on an
\* allowed site); without entry the store is queried exactly once.
C7_StoreQueriedOnce ==
    \A i \in 1..Len(fetches) :
        LooksUpTools(fetches[i]) =>
            /\ memcache[query.tool_id].found =>
                  /\ StoreCalls(fetches[i]) = <<>>
                  /\ fetches[i].candidates =
                        SelectSeq(memcache[query.tool_id].value,
                            LAMBDA t :
                                /\ StatusFor(t, fetches[i].address_family) = STATUS_ONLINE
                                /\ \/ fetches[i].site_id_list = <<>>
                                   \/ t.site_id \in Range(fetches[i].site_id_list))
            /\ ~memcache[query.tool_id].found => Len(StoreCalls(fetches[i])) = 1

\* C7, amended: as stated, but without entry the store is queried twice,
\* the one GQL query of the fetch being run by count() for the log line and
\* by fetch() for the result.
C7_CacheBeforeStore ==
    \A i \in 1..Len(fetches) :
        LooksUpTools(fetches[i]) =>
            /\ fetches[i].calls[Len(fetches[i].calls) - Len(StoreCalls(fetches[i]))]
                  = "memcache.get"
            /\ memcache[query.tool_id].found =>
                  /\ StoreCalls(fetches[i]) = <<>>
                  /\ fetches[i].candidates =
                        SelectSeq(memcache[query.tool_id].value,
                            LAMBDA t :
                                /\ StatusFor(t, fetches[i].address_family) = STATUS_ONLINE
                                /\ \/ fetches[i].site_id_list = <<>>
                                   \/ t.site_id \in Range(fetches[i].site_id_list))
            /\ ~memcache[query.tool_id].found =>
                  StoreCalls(fetches[i]) = <<"SliverTool.count", "SliverTool.fetch">>

C7_Witness ==
    /\ fetches /= <<>>
    /\ LooksUpTools(fetches[1])
    /\ memcache[query.tool_id].found
    /\ fetches[1].candidates = <<>>
    /\ StoreCalls(fetches[1]) = <<>>
    /\ \E i \in 1..Len(datastore) :
          /\ datastore[i].tool_id = query.tool_id
          /\ StatusFor(datastore[i], fetches[1].address_family) = STATUS_ONLINE

\* C8: whatever the resolver, when every fetch of candidates made for the
\* query came back empty, answer_query returns None: no list, no exception.
C8_EmptyIsNotFound ==
    (Done /\ AllFetchesEmpty) => result = NotFound

C8_Witness ==
    /\ Done
    /\ Len(fetches) = 2
    /\ AllFetchesEmpty
    /\ resolver = "AllResolver"
    /\ result = NotFound

\* C9: GeoResolver hands to random.choice exactly the candidates whose
\* distance is the least one, whatever their place in the list, and returns
\* one of them.
C9_GeoTies ==
    (Done /\ resolver = "GeoResolver" /\ candidates /= <<>> /\ Located) =>
        /\ closest_sliver_tools =
              SelectSeq(candidates, LAMBDA t : OwnDistance(t) = MinOwnDistance)
        /\ \E i \in 1..Len(closest_sliver_tools) :
              result = Returned(<<closest_sliver_tools[i]>>)

C9_Witness ==
    /\ Done /\ resolver = "GeoResolver" /\ Located
    /\ Len(candidates) >= 4
    /\ OwnDistance(candidates[1]) > MinOwnDistance
    /\ OwnDistance(candidates[2]) = MinOwnDistance
    /\ OwnDistance(candidates[3]) > MinOwnDistance
    /\ OwnDistance(candidates[4]) = MinOwnDistance
    /\ candidates[2].site_id /= candidates[4].site_id
    /\ result = Returned(<<candidates[4]>>)

\* C10: a query without address family makes get_candidates return the
\* empty list with no memcache, SliverTool or Site call, whatever the
\* user-defined family, and every resolver answers NotFound.
C10_NoFamily ==
    (pc /= "idle" /\ query.address_family = None) =>
        /\ calls = <<>>
        /\ fetches = <<>>
        /\ candidates = <<>>
        /\ Done => result = NotFound

C10_Witness ==
    /\ Done
    /\ query.address_family = None
    /\ query.user_defined_af = ADDRESS_FAMILY_IPv4
    /\ resolver = "AllResolver"
    /\ memcache["ndt"].found
    /\ \E i \in 1..Len(memcache["ndt"].value) :
          memcache["ndt"].value[i].status_ipv4 = STATUS_ONLINE
    /\ result = NotFound

====
